---- MODULE Spec2Model ----
(***************************************************************************)
(* A model of mana_sim: the mana pool (src/src/sim.rs ManaPool), the game  *)
(* state and its construction with the mulligan loop (GameState), one turn *)
(* of the turn engine (play_turn, classify_turn), deck validation          *)
(* (src/src/deck.rs DeckFile) and the Monte Carlo driver (run).            *)
(*                                                                         *)
(* Specifications:                                                         *)
(*   SpecPool  one ManaPool object under add_color / can_pay / spend       *)
(*   Spec      one simulation: GameState::new, then play_turn per turn     *)
(*   SpecDet   two executions of one simulation under a fixed shuffle      *)
(*   SpecRun   run(): validation, the parallel fan-out, the aggregation    *)
(***************************************************************************)
EXTENDS Integers, Sequences, FiniteSets, TLC

VARIABLES
    pool,       \* SpecPool: the ManaPool object
    op,         \* SpecPool: the last call made on it and what it returned
    sim,        \* Spec, SpecDet: one simulation (the closure of run, its GameState)
    twin,       \* SpecDet: a second execution of the same simulation
    run         \* SpecRun: one call of run, its workers and its Stats

poolVars == <<pool, op>>

simVars == <<sim, twin, run>>

vars == <<pool, op, sim, twin, run>>

(***************************************************************************)
(* Bounds of the model                                                     *)
(***************************************************************************)
MaxMana == 3        \* SpecPool: largest total held by the pool
MaxCost == 2        \* SpecPool: largest generic cost requested
MaxPips == 2        \* SpecPool: longest pip list requested

(***************************************************************************)
(* Generic helpers                                                         *)
(***************************************************************************)
Min(a, b) == IF a <= b THEN a ELSE b

Range(s) == {s[i] : i \in DOMAIN s}

Last(s) == s[Len(s)]

\* number of positions of s holding x
CountIn(x, s) == Cardinality({i \in DOMAIN s : s[i] = x})

RECURSIVE SumOver(_, _)
\* sum of f[k] over the keys k in S
SumOver(f, S) ==
    IF S = {} THEN 0
    ELSE LET k == CHOOSE x \in S : TRUE IN f[k] + SumOver(f, S \ {k})

RECURSIVE SetToSeq(_)
\* the elements of S in one fixed order
SetToSeq(S) ==
    IF S = {} THEN <<>>
    ELSE LET k == CHOOSE x \in S : TRUE IN <<k>> \o SetToSeq(S \ {k})

\* every sequence that lists each element of S exactly once
SeqsOf(S) ==
    {s \in [1..Cardinality(S) -> S] : \A i, j \in DOMAIN s : i # j => s[i] # s[j]}

\* all sequences over S of length at most n
SeqsUpTo(S, n) == UNION {[1..k -> S] : k \in 0..n}

(***************************************************************************)
(* ManaPool (sim.rs 9-88)                                                  *)
(***************************************************************************)
\* the six symbols ManaPool::new inserts
ColorSymbols == {"W", "U", "B", "R", "G", "C"}

\* a symbol a deck file may use that ManaPool::new does not know
OtherSymbols == {"X"}

Symbols == ColorSymbols \cup OtherSymbols

\* the symbols the calls of SpecPool are made with: two of the six colors
\* (the pool treats all six alike) and the unknown one
CallSymbols == {"W", "U"} \cup OtherSymbols

\* ManaPool::new
NewPool == [generic |-> 0, colors |-> [c \in ColorSymbols |-> 0]]

\* HashMap::get(color).copied().unwrap_or(0)
GetOr0(m, k) == IF k \in DOMAIN m THEN m[k] ELSE 0

\* *self.colors.entry(c).or_insert(0) += n
AddColor(p, c, n) ==
    [p EXCEPT !.colors =
        [k \in DOMAIN p.colors \cup {c} |->
            IF k = c THEN GetOr0(p.colors, k) + n ELSE p.colors[k]]]

\* mana.generic += 1 (generate_mana)
AddGeneric(p) == [p EXCEPT !.generic = @ + 1]

\* ManaPool::total
Total(p) == p.generic + SumOver(p.colors, DOMAIN p.colors)

\* the HashMap built from a pip list: color -> number of pips of that color
PipCounts(pips) == [c \in Range(pips) |-> CountIn(c, pips)]

\* u32::saturating_sub
SaturatingSub(a, b) == IF a >= b THEN a - b ELSE 0

\* the mutant of CanPay that forgets to set the pips aside
CanPayNoReserve(p, generic, pips) ==
    LET required_colors == PipCounts(pips)
    IN  /\ \A color \in DOMAIN required_colors :
              ~(GetOr0(p.colors, color) < required_colors[color])
        /\ Total(p) >= generic

\* ManaPool::can_pay
CanPay(p, generic, pips) ==
    LET required_colors == PipCounts(pips)
        surplus == [color \in DOMAIN p.colors |->
                      SaturatingSub(p.colors[color], GetOr0(required_colors, color))]
        remaining_mana == p.generic + SumOver(surplus, DOMAIN surplus)
    IN  /\ \A color \in DOMAIN required_colors :
              ~(GetOr0(p.colors, color) < required_colors[color])
        /\ remaining_mana >= generic

\* spend, lines 59-66: every pip is taken from its color counter
PayPips(p, pips) ==
    LET pip_counts == PipCounts(pips)
    IN  [p EXCEPT !.colors =
            [k \in DOMAIN p.colors \cup DOMAIN pip_counts |->
                GetOr0(p.colors, k) - GetOr0(pip_counts, k)]]

\* the mutant of PayGeneric that takes the whole cost from the generic counter
PayGenericAll(p, generic) ==
    [pool |-> [p EXCEPT !.generic = @ - generic], remaining |-> 0]

\* spend, lines 69-74: the generic counter pays first
PayGeneric(p, generic) ==
    LET from_generic == Min(generic, p.generic)
    IN  [pool |-> [p EXCEPT !.generic = @ - from_generic],
         remaining |-> generic - from_generic]

RECURSIVE DrainSteps(_, _, _)
\* spend, lines 77-84: the color counters are visited in the order ord the
\* HashMap yields them; the pool after each visit, until remaining is 0
DrainSteps(p, remaining, ord) ==
    IF ord = <<>> \/ remaining = 0 THEN <<>>
    ELSE LET color == Head(ord)
             from_color == Min(remaining, p.colors[color])
             q == [p EXCEPT !.colors[color] = @ - from_color]
         IN  <<q>> \o DrainSteps(q, remaining - from_color, Tail(ord))

\* the pools spend passes through once can_pay has accepted the request
SpendSteps(p, generic, pips, ord) ==
    LET a == PayPips(p, pips)
        b == PayGeneric(a, generic)
    IN  <<a, b.pool>> \o DrainSteps(b.pool, b.remaining, ord)

\* the mutant of Spend that pays the pips before it checks the request
SpendThenCheck(p, generic, pips, ord) ==
    IF ~CanPay(p, generic, pips)
    THEN [ok |-> FALSE,
          pool |-> [p EXCEPT !.colors =
                      [k \in DOMAIN p.colors |->
                          SaturatingSub(p.colors[k], CountIn(k, pips))]]]
    ELSE [ok |-> TRUE, pool |-> Last(SpendSteps(p, generic, pips, ord))]

\* ManaPool::spend, with the HashMap's iteration order ord
Spend(p, generic, pips, ord) ==
    IF ~CanPay(p, generic, pips)
    THEN [ok |-> FALSE, pool |-> p]
    ELSE [ok |-> TRUE, pool |-> Last(SpendSteps(p, generic, pips, ord))]

\* The orders in which values_mut() may yield the counters.  A visit to a
\* counter that holds nothing takes min(remaining, 0) = 0 and changes
\* nothing, so every order of the non-empty counters is listed once, with
\* the empty counters after them.
Orders(colors) ==
    LET full == {c \in DOMAIN colors : colors[c] > 0}
    IN  {s \o SetToSeq(DOMAIN colors \ full) : s \in SeqsOf(full)}

\* the orders the HashMap of pool p may have when spend drains it
SpendOrders(p, pips) ==
    IF \A c \in Range(pips) : c \in DOMAIN p.colors
    THEN Orders(PayPips(p, pips).colors)
    ELSE {SetToSeq(DOMAIN p.colors)}

(***************************************************************************)
(* Cards and deck files (deck.rs)                                          *)
(***************************************************************************)
\* Feature: only the field `feature` is ever read (has_draw, draw_count)
DrawFeature == [feature |-> "DRAW"]

\* Card::Commander
Commander(name, generic, pips, features) ==
    [type |-> "Commander", name |-> name, generic |-> generic, pips |-> pips,
     features |-> features]

\* Card::Spell; type_line is the text as a sequence of characters
Spell(name, generic, pips, features, type_line, count) ==
    [type |-> "Spell", name |-> name, generic |-> generic, pips |-> pips,
     features |-> features, type_line |-> type_line, count |-> count]

\* Card::Land
Land(name, produces, is_fetch, fetches, count) ==
    [type |-> "Land", name |-> name, produces |-> produces,
     is_fetch |-> is_fetch, fetches |-> fetches, count |-> count]

\* Card::Ramp
Ramp(name, generic, produces, features, count) ==
    [type |-> "Ramp", name |-> name, generic |-> generic, produces |-> produces,
     features |-> features, count |-> count]

\* Card::has_draw
HasDraw(c) ==
    IF c.type \in {"Spell", "Ramp", "Commander"}
    THEN \E i \in DOMAIN c.features : c.features[i].feature = "DRAW"
    ELSE FALSE

\* Card::draw_count
DrawCount(c) ==
    IF c.type \in {"Spell", "Ramp", "Commander"}
    THEN Cardinality({i \in DOMAIN c.features : c.features[i].feature = "DRAW"})
    ELSE 0

\* the number of cards a deck must expand to (the assert_eq! of expand)
DeckSize == 99

\* n copies of card c, as the inner loop of expand pushes them
Copies(c, n) == [i \in 1..n |-> c]

RECURSIVE ExpandFrom(_, _)
\* DeckFile::expand, the loop over self.cards from entry i on
ExpandFrom(cards, i) ==
    IF i > Len(cards) THEN <<>>
    ELSE IF cards[i].type = "Commander" THEN ExpandFrom(cards, i + 1)
    ELSE Copies(cards[i], cards[i].count) \o ExpandFrom(cards, i + 1)

\* DeckFile::expand: the deck, or a panic when it does not hold 99 cards
Expand(cards) ==
    LET deck == ExpandFrom(cards, 1)
    IN  IF Len(deck) = DeckSize
        THEN [panic |-> FALSE, deck |-> deck]
        ELSE [panic |-> TRUE, deck |-> <<>>]

\* Iterator::position / Iterator::find: the first of the indices `hits`, the
\* indices whose element passes the closure; 0 for None
Position(hits) ==
    IF hits = {} THEN 0
    ELSE CHOOSE i \in hits : \A j \in hits : i <= j

IsCommander(c) == c.type = "Commander"

IsLand(c) == c.type = "Land"

\* DeckFile::commander: the first Commander entry, or a panic when there is none
FindCommander(cards) ==
    LET pos == Position({i \in DOMAIN cards : IsCommander(cards[i])})
    IN  IF pos = 0
        THEN [panic |-> TRUE, card |-> <<>>]
        ELSE [panic |-> FALSE, card |-> <<cards[pos]>>]

(***************************************************************************)
(* GameState (sim.rs 90-206)                                               *)
(***************************************************************************)
\* Vec::remove(i), 1-based
RemoveAt(s, i) == SubSeq(s, 1, i - 1) \o SubSeq(s, i + 1, Len(s))

RECURSIVE Arrangements(_)
\* every order slice::shuffle can leave the cards of lib in
Arrangements(lib) ==
    IF Cardinality(Range(lib)) <= 1 THEN {lib}
    ELSE UNION {{<<c>> \o rest :
                    rest \in Arrangements(RemoveAt(lib, Position({i \in DOMAIN lib : lib[i] = c})))} :
                c \in Range(lib)}

\* library.shuffle(&mut thread_rng()); a fixed random source returns the
\* same permutation (here the identity) at every call
Shuffle(lib, rng) == IF rng = "fixed" THEN {lib} ELSE Arrangements(lib)

RECURSIVE DrawCardsFront(_, _)
\* the mutant of DrawCards that takes the cards from the front of the library
DrawCardsFront(s, n) ==
    IF n = 0 THEN s
    ELSE DrawCardsFront(IF s.library # <<>>
                        THEN [s EXCEPT !.hand = Append(@, Head(s.library)),
                                       !.library = Tail(@)]
                        ELSE s,
                        n - 1)

RECURSIVE DrawCards(_, _)
\* GameState::draw(n): n times, pop the tail of the library onto the hand
DrawCards(s, n) ==
    IF n = 0 THEN s
    ELSE DrawCards(IF s.library # <<>>
                   THEN [s EXCEPT !.hand = Append(@, Last(s.library)),
                                  !.library = SubSeq(@, 1, Len(@) - 1)]
                   ELSE s,
                   n - 1)

RECURSIVE DiscardFromFront(_, _)
\* the mutant of DiscardToHandSize that discards the oldest cards of the hand
DiscardFromFront(s, max_size) ==
    IF Len(s.hand) > max_size
    THEN DiscardFromFront([s EXCEPT !.graveyard = Append(@, Head(s.hand)),
                                    !.hand = Tail(@)],
                          max_size)
    ELSE s

RECURSIVE DiscardToHandSize(_, _)
\* GameState::discard_to_hand_size(max_size)
DiscardToHandSize(s, max_size) ==
    IF Len(s.hand) > max_size
    THEN DiscardToHandSize([s EXCEPT !.graveyard = Append(@, Last(s.hand)),
                                     !.hand = SubSeq(@, 1, Len(@) - 1)],
                           max_size)
    ELSE s

\* the mutant of ManaFrom that lets an empty production set add generic mana
ManaFromAnySet(permanent) ==
    IF permanent.type \in {"Land", "Ramp"}
    THEN IF Len(permanent.produces) # 1 THEN "generic"
         ELSE IF permanent.produces[1] = "C" THEN "generic"
         ELSE permanent.produces[1]
    ELSE "none"

\* what one permanent adds in generate_mana: "generic", a color symbol, or
\* "none" (an empty production set, or a card that is no Land or Ramp)
ManaFrom(permanent) ==
    IF permanent.type \in {"Land", "Ramp"}
    THEN IF permanent.produces = <<>> THEN "none"
         ELSE IF Len(permanent.produces) > 1 THEN "generic"
         ELSE IF permanent.produces[1] = "C" THEN "generic"
         ELSE permanent.produces[1]
    ELSE "none"

\* GameState::generate_mana: the pool the loop over the battlefield leaves,
\* every permanent adding 1 to the counter ManaFrom names
GenerateMana(battlefield) ==
    LET adds(k) == Cardinality({i \in DOMAIN battlefield : ManaFrom(battlefield[i]) = k})
        named == {ManaFrom(battlefield[i]) : i \in DOMAIN battlefield} \ {"none", "generic"}
    IN  [generic |-> adds("generic"),
         colors |-> [c \in ColorSymbols \cup named |-> adds(c)]]

\* the hand sizes of the mulligan loop
FullHand == 7

FloorHand == 4

\* a Ramp of generic cost at most 2 counts as fast mana in the keep rule
FastManaCost == 2

MinSources == 3

MaxLands == 5

\* the mutant of Keep that counts every Ramp as fast mana
KeepAnyRamp(hand) ==
    LET land_count == Cardinality({i \in DOMAIN hand : hand[i].type = "Land"})
        fast_mana == Cardinality({i \in DOMAIN hand : hand[i].type = "Ramp"})
        total_sources == land_count + fast_mana
    IN  total_sources >= MinSources /\ land_count <= MaxLands

\* lines 123-130: the keep condition of the mulligan loop
Keep(hand) ==
    LET land_count == Cardinality({i \in DOMAIN hand : hand[i].type = "Land"})
        fast_mana == Cardinality({i \in DOMAIN hand :
                        hand[i].type = "Ramp" /\ hand[i].generic <= FastManaCost})
        total_sources == land_count + fast_mana
    IN  total_sources >= MinSources /\ land_count <= MaxLands

\* the simulation before GameState::new is called (run, line 367)
NewSim(deck, commander, turns, sim_idx, rng) ==
    [pc |-> "new", rng |-> rng, deck |-> deck, turns |-> turns,
     capture |-> sim_idx < 5,
     hand |-> <<>>, battlefield |-> <<>>, graveyard |-> <<>>, library |-> deck,
     commander |-> <<commander>>, commander_casts |-> 0, lands_played |-> 0,
     hand_size |-> 0, iterations |-> 0,
     turn |-> 0, played_cards |-> <<>>, mana |-> NewPool, mana_available |-> 0,
     mana_spent |-> 0, cards_cast |-> 0, cards_drawn |-> 0,
     turn_data |-> <<>>, snapshots |-> <<>>, trace |-> <<>>]

\* GameState::new, lines 102-114: shuffle, draw 7, hand_size = 7, and the
\* hand.clear() that opens the first iteration of the loop
NewDraw(s) ==
    {LET d == DrawCards([s EXCEPT !.library = lib], FullHand)
     IN  [d EXCEPT !.hand = <<>>, !.hand_size = FullHand, !.pc = "mulligan"] :
     lib \in Shuffle(s.library, s.rng)}

\* GameState::new, lines 115-138 (and 114, a no-op on the drained hand):
\* one iteration of the mulligan loop; on break the GameState is built
MulliganIteration(s) ==
    {LET d == DrawCards([s EXCEPT !.library = lib], s.hand_size)
     IN  IF Keep(d.hand) \/ s.hand_size = FloorHand
         THEN [d EXCEPT !.iterations = @ + 1, !.pc = "turn"]
         ELSE [d EXCEPT !.iterations = @ + 1,
                        !.library = d.library \o d.hand,
                        !.hand = <<>>,
                        !.hand_size = @ - 1] :
     lib \in Shuffle(s.library, s.rng)}

(***************************************************************************)
(* play_turn (sim.rs 208-344), one step per phase                          *)
(***************************************************************************)
\* lines 209-212: reset the per-turn state and draw for the turn
BeginTurn(s) ==
    LET d == DrawCards([s EXCEPT !.lands_played = 0, !.played_cards = <<>>], 1)
    IN  [d EXCEPT !.pc = "land"]

\* the mutant of Fetchable that takes any non-fetch land, whatever it produces
FetchableAnyColor(land, c) ==
    /\ c.type = "Land"
    /\ ~c.is_fetch

\* lines 222-228: the test a library card must pass to be fetched by `land`
Fetchable(land, c) ==
    /\ c.type = "Land"
    /\ ~c.is_fetch
    /\ \E f \in Range(land.fetches) : f \in Range(c.produces)

\* lines 215-241: the land drop
LandDrop(s) ==
    LET pos == Position({i \in DOMAIN s.hand : IsLand(s.hand[i])})
        land == s.hand[pos]
        basic_pos == Position({i \in DOMAIN s.library : Fetchable(land, s.library[i])})
        basic == s.library[basic_pos]
    IN  IF pos = 0 THEN {[s EXCEPT !.pc = "mana"]}
        ELSE IF land.is_fetch
        THEN IF basic_pos # 0
             THEN {[s EXCEPT !.hand = RemoveAt(@, pos),
                             !.played_cards = @ \o <<land.name \o " (fetch)",
                                                     basic.name \o " (fetched)">>,
                             !.library = lib,
                             !.battlefield = Append(@, basic),
                             !.graveyard = Append(@, land),
                             !.lands_played = @ + 1,
                             !.pc = "mana"] :
                   lib \in Shuffle(RemoveAt(s.library, basic_pos), s.rng)}
             ELSE {[s EXCEPT !.hand = RemoveAt(@, pos),
                             !.played_cards = Append(@, land.name \o " (fetch)"),
                             !.graveyard = Append(@, land),
                             !.lands_played = @ + 1,
                             !.pc = "mana"]}
        ELSE {[s EXCEPT !.hand = RemoveAt(@, pos),
                        !.played_cards = Append(@, land.name),
                        !.battlefield = Append(@, land),
                        !.lands_played = @ + 1,
                        !.pc = "mana"]}

\* lines 243-246: the pool of the turn and the counters of the casting loop
BeginCasting(s) ==
    LET mana == GenerateMana(s.battlefield)
    IN  [s EXCEPT !.mana = mana, !.mana_available = Total(mana),
                  !.cards_cast = 0, !.cards_drawn = 0, !.pc = "cast"]

\* lines 253-265: the Ramp the reverse scan over the hand casts, 0 for none
\* (a spend that fails returns before it touches the pool)
RampChoice(s) ==
    LET payable == {i \in DOMAIN s.hand :
                       s.hand[i].type = "Ramp" /\ CanPay(s.mana, s.hand[i].generic, <<>>)}
    IN  IF payable = {} THEN 0
        ELSE CHOOSE i \in payable : \A j \in payable : j <= i

\* lines 256-262: the Ramp at hand index i is cast, the pool drained in order ord
CastRamp(s, i, ord) ==
    LET card == s.hand[i]
    IN  [s EXCEPT !.mana = Spend(s.mana, card.generic, <<>>, ord).pool,
                  !.hand = RemoveAt(@, i),
                  !.played_cards = Append(@, card.name),
                  !.cards_drawn = @ + DrawCount(card),
                  !.battlefield = Append(@, card),
                  !.cards_cast = @ + 1]

\* the commander tax per earlier cast (line 271)
TaxPerCast == 2

\* line 271
CommanderTax(s) == s.commander_casts * TaxPerCast

\* the mutant of CommanderCastable without the guard mana.total() > 0
CommanderCastableFree(s) ==
    /\ s.commander # <<>>
    /\ s.commander[1].type = "Commander"
    /\ CanPay(s.mana, s.commander[1].generic + CommanderTax(s), s.commander[1].pips)

\* lines 269-275: the commander is in its slot and the pool, which must
\* hold mana, pays its pips and its taxed generic cost
CommanderCastable(s) ==
    /\ s.commander # <<>>
    /\ s.commander[1].type = "Commander"
    /\ Total(s.mana) > 0
    /\ CanPay(s.mana, s.commander[1].generic + CommanderTax(s), s.commander[1].pips)

\* the mutant of CastCommander that leaves the commander in its slot
CastCommanderKept(s, ord) ==
    LET cmd == s.commander[1]
        tax == CommanderTax(s)
    IN  [s EXCEPT !.mana = Spend(s.mana, cmd.generic + tax, cmd.pips, ord).pool,
                  !.played_cards = Append(@, cmd.name \o " (cmdr tax: "
                                                \o ToString(tax) \o ")"),
                  !.battlefield = Append(@, cmd),
                  !.commander_casts = @ + 1,
                  !.cards_cast = @ + 1]

\* the mutant of CastCommander that forgets to count the cast
CastCommanderUncounted(s, ord) ==
    LET cmd == s.commander[1]
        tax == CommanderTax(s)
    IN  [s EXCEPT !.mana = Spend(s.mana, cmd.generic + tax, cmd.pips, ord).pool,
                  !.played_cards = Append(@, cmd.name \o " (cmdr tax: "
                                                \o ToString(tax) \o ")"),
                  !.commander = <<>>,
                  !.battlefield = Append(@, cmd),
                  !.cards_cast = @ + 1]

\* lines 275-281
CastCommander(s, ord) ==
    LET cmd == s.commander[1]
        tax == CommanderTax(s)
    IN  [s EXCEPT !.mana = Spend(s.mana, cmd.generic + tax, cmd.pips, ord).pool,
                  !.played_cards = Append(@, cmd.name \o " (cmdr tax: "
                                                \o ToString(tax) \o ")"),
                  !.commander = <<>>,
                  !.battlefield = Append(@, cmd),
                  !.commander_casts = @ + 1,
                  !.cards_cast = @ + 1]

RECURSIVE BestSpellFirst(_, _, _, _, _)
\* the mutant of BestSpell that keeps the first affordable Spell
BestSpellFirst(hand, mana, i, best_spell, best_has_draw) ==
    IF i > Len(hand) THEN best_spell
    ELSE IF hand[i].type = "Spell" /\ CanPay(mana, hand[i].generic, hand[i].pips)
    THEN IF best_spell = 0
         THEN BestSpellFirst(hand, mana, i + 1, i, HasDraw(hand[i]))
         ELSE BestSpellFirst(hand, mana, i + 1, best_spell, best_has_draw)
    ELSE BestSpellFirst(hand, mana, i + 1, best_spell, best_has_draw)

RECURSIVE BestSpell(_, _, _, _, _)
\* lines 288-301: the scan over the hand from index i on, with the best
\* spell so far (0 for None) and whether it has a draw effect
BestSpell(hand, mana, i, best_spell, best_has_draw) ==
    IF i > Len(hand) THEN best_spell
    ELSE IF hand[i].type = "Spell" /\ CanPay(mana, hand[i].generic, hand[i].pips)
    THEN LET has_draw == HasDraw(hand[i])
         IN  IF best_spell = 0 \/ (has_draw /\ ~best_has_draw)
             THEN BestSpell(hand, mana, i + 1, i, has_draw)
             ELSE BestSpell(hand, mana, i + 1, best_spell, best_has_draw)
    ELSE BestSpell(hand, mana, i + 1, best_spell, best_has_draw)

UpperCase == <<"A", "B", "C", "D", "E", "F", "G", "H", "I", "J", "K", "L", "M",
               "N", "O", "P", "Q", "R", "S", "T", "U", "V", "W", "X", "Y", "Z">>

LowerCase == <<"a", "b", "c", "d", "e", "f", "g", "h", "i", "j", "k", "l", "m",
               "n", "o", "p", "q", "r", "s", "t", "u", "v", "w", "x", "y", "z">>

\* str::to_lowercase on a text given as its characters
ToLowercase(text) ==
    [i \in DOMAIN text |->
        IF \E k \in DOMAIN UpperCase : UpperCase[k] = text[i]
        THEN LowerCase[CHOOSE k \in DOMAIN UpperCase : UpperCase[k] = text[i]]
        ELSE text[i]]

\* str::contains
Contains(text, word) ==
    \E i \in 0..(Len(text) - Len(word)) : SubSeq(text, i + 1, i + Len(word)) = word

\* lines 315-316
IsInstantSorcery(type_line) ==
    LET type_lower == ToLowercase(type_line)
    IN  \/ Contains(type_lower, <<"i", "n", "s", "t", "a", "n", "t">>)
        \/ Contains(type_lower, <<"s", "o", "r", "c", "e", "r", "y">>)

\* the mutant of CastSpell that leaves the Spell in the hand
CastSpellKept(s, i, ord) ==
    LET card == s.hand[i]
        t == [s EXCEPT !.mana = Spend(s.mana, card.generic, card.pips, ord).pool,
                       !.played_cards = Append(@, card.name),
                       !.cards_drawn = @ + DrawCount(card),
                       !.cards_cast = @ + 1]
    IN  IF IsInstantSorcery(card.type_line)
        THEN [t EXCEPT !.graveyard = Append(@, card)]
        ELSE [t EXCEPT !.battlefield = Append(@, card)]

\* lines 303-326: the Spell at hand index i is cast
CastSpell(s, i, ord) ==
    LET card == s.hand[i]
        t == [s EXCEPT !.mana = Spend(s.mana, card.generic, card.pips, ord).pool,
                       !.hand = RemoveAt(@, i),
                       !.played_cards = Append(@, card.name),
                       !.cards_drawn = @ + DrawCount(card),
                       !.cards_cast = @ + 1]
    IN  IF IsInstantSorcery(card.type_line)
        THEN [t EXCEPT !.graveyard = Append(@, card)]
        ELSE [t EXCEPT !.battlefield = Append(@, card)]

\* the mutant of PassKind that tries the commander before the Ramps
PassKindCommanderFirst(s) ==
    IF CommanderCastable(s) THEN "commander"
    ELSE IF RampChoice(s) # 0 THEN "ramp"
    ELSE IF BestSpell(s.hand, s.mana, 1, 0, FALSE) # 0 THEN "spell"
    ELSE "none"

\* lines 250-332: one pass of the casting loop.  "ramp", "commander" or
\* "spell" names the play the pass makes, "none" a pass that ends the loop
PassKind(s) ==
    IF RampChoice(s) # 0 THEN "ramp"
    ELSE IF CommanderCastable(s) THEN "commander"
    ELSE IF BestSpell(s.hand, s.mana, 1, 0, FALSE) # 0 THEN "spell"
    ELSE "none"

CastPass(s) ==
    LET kind == PassKind(s)
    IN  IF kind = "ramp"
        THEN {CastRamp(s, RampChoice(s), ord) : ord \in SpendOrders(s.mana, <<>>)}
        ELSE IF kind = "commander"
        THEN {CastCommander(s, ord) : ord \in SpendOrders(s.mana, s.commander[1].pips)}
        ELSE IF kind = "spell"
        THEN LET i == BestSpell(s.hand, s.mana, 1, 0, FALSE)
             IN  {CastSpell(s, i, ord) : ord \in SpendOrders(s.mana, s.hand[i].pips)}
        ELSE {[s EXCEPT !.pc = "end"]}

\* the hand size the cleanup step discards down to (line 341)
MaxHandSize == 7

\* lines 336-343: draws from effects, mana spent, cleanup
EndTurn(s) ==
    LET d == DrawCards(s, s.cards_drawn)
        e == DiscardToHandSize(d, MaxHandSize)
    IN  [e EXCEPT !.mana_spent = s.mana_available - Total(s.mana), !.pc = "classify"]

\* the thresholds of classify_turn: hand_land_ratio >= 0.8, leftover_mana >= 4
FloodRatioNum == 4

FloodRatioDen == 5

FloodLeftover == 4

\* line 377 with the comparison of line 347: the ratio land_count / len is
\* 0.0 for an empty hand; for the hand sizes a turn can end with (at most 7)
\* the f64 quotient is >= 0.8 exactly when 5 * land_count >= 4 * len
RatioFloods(land_count, len) ==
    len # 0 /\ FloodRatioDen * land_count >= FloodRatioNum * len

\* the mutant of ClassifyTurn that calls mana wasted only above the threshold
ClassifyTurnStrict(cards_cast, leftover_mana, land_count, len) ==
    IF cards_cast = 0 /\ RatioFloods(land_count, len) THEN "flood"
    ELSE IF cards_cast = 0 THEN "screw"
    ELSE IF leftover_mana > FloodLeftover THEN "flood"
    ELSE "ok"

\* classify_turn (lines 346-356), the ratio given by its two terms
ClassifyTurn(cards_cast, leftover_mana, land_count, len) ==
    IF cards_cast = 0 /\ RatioFloods(land_count, len) THEN "flood"
    ELSE IF cards_cast = 0 THEN "screw"
    ELSE IF leftover_mana >= FloodLeftover THEN "flood"
    ELSE "ok"

Names(cards) == [i \in DOMAIN cards |-> cards[i].name]

\* run, lines 374-400: classify the turn, keep its snapshot and its tuple
RecordTurn(s) ==
    LET leftover == s.mana_available - s.mana_spent
        land_count == Cardinality({i \in DOMAIN s.hand : s.hand[i].type = "Land"})
        status == ClassifyTurn(s.cards_cast, leftover, land_count, Len(s.hand))
        snapshot == [turn |-> s.turn + 1, hand |-> Names(s.hand),
                     battlefield |-> Names(s.battlefield),
                     played_cards |-> s.played_cards,
                     mana_available |-> s.mana_available,
                     mana_spent |-> s.mana_spent,
                     cards_cast |-> s.cards_cast, status |-> status]
        tuple == <<IF status = "screw" THEN 1 ELSE 0,
                   IF status = "flood" THEN 1 ELSE 0,
                   IF status \notin {"screw", "flood"} THEN 1 ELSE 0,
                   s.mana_available, s.mana_spent, s.cards_cast, Len(s.hand)>>
    IN  [s EXCEPT !.snapshots = IF s.capture THEN Append(@, snapshot) ELSE @,
                  !.turn_data = Append(@, tuple),
                  !.turn = @ + 1,
                  !.pc = "turn"]

\* lines 404-412: the statuses max_by_key may return, the HashMap being
\* visited in any order: every most frequent status, "ok" without snapshots
FinalStatuses(snapshots) ==
    LET count(st) == Cardinality({i \in DOMAIN snapshots : snapshots[i].status = st})
        seen == {snapshots[i].status : i \in DOMAIN snapshots}
    IN  IF seen = {} THEN {"ok"}
        ELSE {st \in seen : \A other \in seen : count(other) <= count(st)}

\* lines 403-420: the simulation ends; a captured one yields its trace
FinishSim(s) ==
    IF s.capture
    THEN {[s EXCEPT !.trace = <<[final_status |-> fs, turns |-> s.snapshots]>>,
                    !.pc = "done"] : fs \in FinalStatuses(s.snapshots)}
    ELSE {[s EXCEPT !.pc = "done"]}

(***************************************************************************)
(* SpecPool: one ManaPool object                                           *)
(***************************************************************************)
\* no call is in progress
NoOp == [kind |-> "none"]

\* no simulation is running
IdleSim == [pc |-> "idle"]

\* run has not been called
IdleRun == [pc |-> "idle"]

PoolInit ==
    /\ pool = NewPool
    /\ op = NoOp
    /\ sim = IdleSim
    /\ twin = IdleSim
    /\ run = IdleRun

\* ManaPool::new: a fresh pool replaces the old one
NewCall ==
    /\ op = NoOp
    /\ pool # NewPool
    /\ pool' = NewPool
    /\ op' = NoOp

\* add_color(c, n)
AddColorCall ==
    /\ op = NoOp
    /\ \E c \in CallSymbols, n \in 0..1 :
          /\ Total(pool) + n <= MaxMana
          /\ pool' = AddColor(pool, c, n)
          /\ op' = NoOp

\* mana.generic += 1
AddGenericCall ==
    /\ op = NoOp
    /\ Total(pool) + 1 <= MaxMana
    /\ pool' = AddGeneric(pool)
    /\ op' = NoOp

\* can_pay(generic, pips)
CanPayCall ==
    /\ op = NoOp
    /\ \E generic \in 0..MaxCost, pips \in SeqsUpTo(CallSymbols, MaxPips) :
          /\ op' = [kind |-> "can_pay", generic |-> generic, pips |-> pips,
                    before |-> pool, ok |-> CanPay(pool, generic, pips)]
          /\ pool' = pool

\* spend(generic, pips)
SpendCall ==
    /\ op = NoOp
    /\ \E generic \in 0..MaxCost, pips \in SeqsUpTo(CallSymbols, MaxPips) :
          \E ord \in SpendOrders(pool, pips) :
              LET r == Spend(pool, generic, pips, ord)
              IN  /\ pool' = r.pool
                  /\ op' = [kind |-> "spend", generic |-> generic, pips |-> pips,
                            before |-> pool, ok |-> r.ok,
                            steps |-> IF r.ok
                                      THEN SpendSteps(pool, generic, pips, ord)
                                      ELSE <<>>]

\* the call recorded in op has returned to its caller
ReturnCall ==
    /\ op # NoOp
    /\ op' = NoOp
    /\ pool' = pool

PoolNext ==
    \/ NewCall /\ UNCHANGED simVars
    \/ ReturnCall /\ UNCHANGED simVars
    \/ AddColorCall /\ UNCHANGED simVars
    \/ AddGenericCall /\ UNCHANGED simVars
    \/ CanPayCall /\ UNCHANGED simVars
    \/ SpendCall /\ UNCHANGED simVars

SpecPool == PoolInit /\ [][PoolNext]_vars

(***************************************************************************)
(* Spec: one simulation, from GameState::new to the end of its last turn  *)
(***************************************************************************)
LongGame == 100     \* turns played with the 99-card decks
ShortGame == 2      \* turns played with the small libraries
MaxSmallLibrary == 12   \* largest library of identical lands
MidGame == 5        \* turns played with the arranged libraries

\* type lines, as characters
Instant == <<"I", "n", "s", "t", "a", "n", "t">>

Creature == <<"C", "r", "e", "a", "t", "u", "r", "e">>

Plains(count) == Land("Plains", <<"W">>, FALSE, <<>>, count)

Island(count) == Land("Island", <<"U">>, FALSE, <<>>, count)

\* a fetch land that searches for a land producing W
Strand(count) == Land("Strand", <<>>, TRUE, <<"W">>, count)

Shock(count) == Spell("Shock", 1, <<"R">>, <<>>, Instant, count)

Sorcery == <<"S", "o", "r", "c", "e", "r", "y">>

\* a Ramp of cost 1 that produces colorless mana
Ring(count) == Ramp("Ring", 1, <<"C">>, <<>>, count)

\* a permanent Spell of 1 generic + 1 white pip
Bear(count) == Spell("Bear", 1, <<"W">>, <<>>, Creature, count)

\* a one-shot Spell of 1 generic with a draw effect
Insight(count) == Spell("Insight", 1, <<>>, <<DrawFeature>>, Sorcery, count)

FreeCommander == Commander("Golem", 0, <<>>, <<>>)

PaidCommander == Commander("Captain", 1, <<"W">>, <<DrawFeature>>)

\* 99 lands of one color with a zero-cost commander, 99 spells of 1 generic
\* + 1 red pip with either commander: expand() accepts both decks
LandDeck == Expand(<<FreeCommander, Plains(99)>>).deck

SpellDeck == Expand(<<Shock(99)>>).deck

\* libraries of identical lands of every size up to MaxSmallLibrary
SmallLibraries == {ExpandFrom(<<Plains(k)>>, 1) : k \in 0..MaxSmallLibrary}

\* a fetch land, a land it cannot fetch and lands it can
FetchLibrary == ExpandFrom(<<Strand(1), Island(1), Plains(14)>>, 1)

\* lands, a Ramp and two Spells
CastLibrary == ExpandFrom(<<Plains(9), Ring(1), Bear(1), Insight(1)>>, 1)

\* Arranged libraries are played with every shuffle the identity: the last
\* seven cards are the ones GameState::new draws and drops, the seven before
\* them the opening hand (dealt from the tail), the rest the draws of the
\* turns, the first card last.
\* An opening hand of five lands and two Spells no Plains pays for, a land
\* for each of four turns, then a Spell of cost 1
WasteLibrary == ExpandFrom(<<Insight(1), Plains(4), Shock(2), Plains(5), Shock(7)>>, 1)

\* a one-shot Spell of 1 generic with two draw effects
Tome(count) == Spell("Tome", 1, <<>>, <<DrawFeature, DrawFeature>>, Sorcery, count)

\* the cards under the opening hand of the draw libraries, the last one the
\* draw of turn 1
DrawPile == ExpandFrom(<<Bear(1), Plains(1), Shock(1), Plains(1)>>, 1)

\* An opening hand of three lands, the Tome, an Insight and two Shocks over
\* the last e cards of the draw pile: the draws of the Tome find 0 to 3 cards
DrawLibraries ==
    {SubSeq(DrawPile, Len(DrawPile) - e + 1, Len(DrawPile))
        \o ExpandFrom(<<Shock(2), Insight(1), Tome(1), Plains(3), Shock(7)>>, 1) :
     e \in 0..Len(DrawPile)}

\* a Ramp of cost 3, too dear to count as fast mana
Vault(count) == Ramp("Vault", 3, <<"C">>, <<>>, count)

\* Opening hands of seven: two lands with a dear Ramp, two lands with a
\* cheap Ramp, six lands
MulliganLibraries ==
    {ExpandFrom(hand \o <<Shock(7)>>, 1) :
        hand \in {<<Shock(4), Vault(1), Plains(2)>>,
                  <<Shock(4), Ring(1), Plains(2)>>,
                  <<Shock(1), Plains(6)>>}}

\* An opening hand of three lands, a cheap Ramp, an Insight, a Bear and a
\* Shock over three lands: on turn 1 the one mana pays for the Ramp, for a
\* free commander or for the Insight
PriorityLibrary ==
    ExpandFrom(<<Plains(3), Shock(1), Bear(1), Insight(1), Ring(1), Plains(3), Shock(7)>>, 1)

\* a Ramp of cost 1 that produces blue mana and draws a card
Lantern(count) == Ramp("Lantern", 1, <<"U">>, <<DrawFeature>>, count)

\* An opening hand of three lands, two cheap Ramps (the Ring before the
\* Lantern in hand order) and two Shocks, over two lands
RampLibrary ==
    ExpandFrom(<<Plains(2), Shock(2), Lantern(1), Ring(1), Plains(3), Shock(7)>>, 1)

\* a one-shot Spell of 1 generic without a draw effect
Omen(count) == Spell("Omen", 1, <<>>, <<>>, Sorcery, count)

\* An opening hand of three lands, a Bear, an Omen, an Insight and a Shock,
\* over two lands: the Omen stands before the Insight, the Bear before both
SpellLibrary ==
    ExpandFrom(<<Plains(2), Shock(1), Insight(1), Omen(1), Bear(1), Plains(3), Shock(7)>>, 1)

\* lands of two colors, of no color and of a symbol the pool does not know
Tower(count) == Land("Tower", <<"W", "U">>, FALSE, <<>>, count)

Waste(count) == Land("Waste", <<>>, FALSE, <<>>, count)

Portal(count) == Land("Portal", <<"X">>, FALSE, <<>>, count)

\* An opening hand of a Tower, a Waste, a Portal, a Plains, a Ring, a
\* Lantern and a Shock, over six Shocks
ManaLibrary ==
    ExpandFrom(<<Shock(6), Lantern(1), Ring(1), Plains(1), Portal(1), Waste(1), Tower(1),
                 Shock(7)>>, 1)

\* An opening hand of three lands, three Tomes and a Shock, over eight
\* cards: turn 1 ends with 8 cards in hand, turn 2 with 9
DiscardLibrary ==
    ExpandFrom(<<Bear(1), Plains(1), Omen(1), Island(1), Shock(1), Plains(1), Bear(1),
                 Island(1), Shock(1), Tome(3), Plains(3), Shock(7)>>, 1)

Scenarios ==
    {[deck |-> LandDeck, commander |-> FreeCommander, turns |-> LongGame, sim_idx |-> 5,
      rng |-> "thread_rng"]}
    \cup {[deck |-> SpellDeck, commander |-> c, turns |-> LongGame, sim_idx |-> 5,
           rng |-> "thread_rng"] : c \in {FreeCommander, PaidCommander}}
    \cup {[deck |-> d, commander |-> FreeCommander, turns |-> ShortGame, sim_idx |-> 0,
           rng |-> "thread_rng"] : d \in SmallLibraries}
    \cup {[deck |-> d, commander |-> PaidCommander, turns |-> ShortGame, sim_idx |-> 0,
           rng |-> "thread_rng"] : d \in {FetchLibrary, CastLibrary}}
    \cup {[deck |-> d, commander |-> FreeCommander, turns |-> MidGame,
           sim_idx |-> 0, rng |-> "fixed"] : d \in {WasteLibrary, ManaLibrary}}
    \cup {[deck |-> d, commander |-> FreeCommander, turns |-> ShortGame,
           sim_idx |-> 0, rng |-> "fixed"] :
                d \in DrawLibraries \cup MulliganLibraries
                      \cup {RampLibrary, SpellLibrary, DiscardLibrary}}
    \cup {[deck |-> PriorityLibrary, commander |-> c, turns |-> ShortGame,
           sim_idx |-> 0, rng |-> "fixed"] : c \in {FreeCommander, PaidCommander}}

Init ==
    /\ sim \in {NewSim(sc.deck, sc.commander, sc.turns, sc.sim_idx, sc.rng) :
                  sc \in Scenarios}
    /\ twin = IdleSim
    /\ run = IdleRun
    /\ pool = NewPool
    /\ op = NoOp

\* GameState::new up to the mulligan loop
NewGame ==
    /\ sim.pc = "new"
    /\ sim' \in NewDraw(sim)
    /\ UNCHANGED <<pool, op, twin, run>>

\* one iteration of the mulligan loop
Mulligan ==
    /\ sim.pc = "mulligan"
    /\ sim' \in MulliganIteration(sim)
    /\ UNCHANGED <<pool, op, twin, run>>

\* play_turn begins: the draw of the turn
StartTurn ==
    /\ sim.pc = "turn"
    /\ sim.turn < sim.turns
    /\ sim' = BeginTurn(sim)
    /\ UNCHANGED <<pool, op, twin, run>>

PlayLand ==
    /\ sim.pc = "land"
    /\ sim' \in LandDrop(sim)
    /\ UNCHANGED <<pool, op, twin, run>>

MakeMana ==
    /\ sim.pc = "mana"
    /\ sim' = BeginCasting(sim)
    /\ UNCHANGED <<pool, op, twin, run>>

Cast ==
    /\ sim.pc = "cast"
    /\ sim' \in CastPass(sim)
    /\ UNCHANGED <<pool, op, twin, run>>

Cleanup ==
    /\ sim.pc = "end"
    /\ sim' = EndTurn(sim)
    /\ UNCHANGED <<pool, op, twin, run>>

Classify ==
    /\ sim.pc = "classify"
    /\ sim' = RecordTurn(sim)
    /\ UNCHANGED <<pool, op, twin, run>>

Finish ==
    /\ sim.pc = "turn"
    /\ sim.turn = sim.turns
    /\ sim' \in FinishSim(sim)
    /\ UNCHANGED <<pool, op, twin, run>>

Next ==
    \/ NewGame
    \/ Mulligan
    \/ StartTurn
    \/ PlayLand
    \/ MakeMana
    \/ Cast
    \/ Cleanup
    \/ Classify
    \/ Finish

Spec == Init /\ [][Next]_vars

(***************************************************************************)
(* SpecDet: two executions of one simulation, the random source fixed      *)
(***************************************************************************)
\* a one-shot Spell of a single white pip
Bless(count) == Spell("Bless", 0, <<"W">>, <<>>, Instant, count)

\* the cards a fixed shuffle leaves to the game, in every order, under the
\* seven cards GameState::new draws first
DetLibraries ==
    {cards \o ExpandFrom(<<Shock(7)>>, 1) :
        cards \in Arrangements(ExpandFrom(<<Island(1), Plains(1), Insight(2), Bless(1)>>, 1))}

\* every state the simulation s may step to
Successors(s) ==
    CASE s.pc = "new" -> NewDraw(s)
      [] s.pc = "mulligan" -> MulliganIteration(s)
      [] s.pc = "turn" /\ s.turn < s.turns -> {BeginTurn(s)}
      [] s.pc = "turn" /\ s.turn = s.turns -> FinishSim(s)
      [] s.pc = "land" -> LandDrop(s)
      [] s.pc = "mana" -> {BeginCasting(s)}
      [] s.pc = "cast" -> CastPass(s)
      [] s.pc = "end" -> {EndTurn(s)}
      [] s.pc = "classify" -> {RecordTurn(s)}
      [] OTHER -> {}

DetInit ==
    /\ sim \in {NewSim(d, FreeCommander, ShortGame, 0, "fixed") : d \in DetLibraries}
    /\ twin = sim
    /\ run = IdleRun
    /\ pool = NewPool
    /\ op = NoOp

\* s and t stand between the same two turns (or both at the end)
SamePoint(s, t) == s.pc \in {"turn", "done"} /\ t.pc = s.pc /\ t.turn = s.turn

\* The two executions share nothing, so every interleaving of their steps
\* gives the same pairs of results: the first runs to the end of a turn,
\* then the second runs the same turn.
DetSimStep ==
    /\ sim.pc \notin {"turn", "done"} \/ SamePoint(sim, twin)
    /\ sim' \in Successors(sim)
    /\ UNCHANGED <<pool, op, twin, run>>

DetTwinStep ==
    /\ sim.pc \in {"turn", "done"}
    /\ ~SamePoint(sim, twin)
    /\ twin' \in Successors(twin)
    /\ UNCHANGED <<pool, op, sim, run>>

DetNext ==
    \/ DetSimStep
    \/ DetTwinStep

SpecDet == DetInit /\ [][DetNext]_vars

(***************************************************************************)
(* C6: with every shuffle returning the same permutation, two executions   *)
(* of one simulation produce identical per-turn snapshots.                 *)
(***************************************************************************)
C6_Deterministic ==
    SamePoint(sim, twin) => sim.snapshots = twin.snapshots

(***************************************************************************)
(* SpecRun: run (sim.rs 358-458), its parallel workers and its reduction   *)
(***************************************************************************)
MaxSims == 2

\* the turn counts run is called with
RunTurns == {1, 2}

\* the commander entries and the other entries a deck document may list
DeckHeads == {<<>>, <<FreeCommander>>, <<FreeCommander, PaidCommander>>}

DeckBodies == {<<Plains(98)>>, <<Plains(60), Shock(39)>>, <<Plains(100)>>}

DeckFiles == {h \o b : h \in DeckHeads, b \in DeckBodies}

\* lines 395-400: the tuples a turn may push, one per status
TurnTuples == {<<1, 0, 0, 0, 0, 0, 7>>, <<0, 1, 0, 2, 0, 0, 5>>, <<0, 0, 1, 1, 1, 1, 4>>}

\* lines 374-420, seen from run: a worker returns one tuple per turn, whatever
\* the game was
TurnData(turns) == [1..turns -> TurnTuples]

\* lines 381-392: the snapshot of turn t, its card names left out
SnapshotOf(tuple, t) ==
    [turn |-> t,
     mana_available |-> tuple[4], mana_spent |-> tuple[5], cards_cast |-> tuple[6],
     status |-> IF tuple[1] = 1 THEN "screw" ELSE IF tuple[2] = 1 THEN "flood" ELSE "ok"]

RECURSIVE Gcd(_, _)
Gcd(a, b) == IF b = 0 THEN a ELSE Gcd(b, a % b)

\* `a as f64 / n`: the double nearest to the rational a/n, written as that
\* rational in lowest terms; NaN for 0/0 and inf for a/0
Quotient(a, n) ==
    IF n = 0 THEN (IF a = 0 THEN "NaN" ELSE "inf")
    ELSE <<a \div Gcd(a, n), n \div Gcd(a, n)>>

\* the mutant of Accumulate whose first statement is s = rs
AccumulateAssign(acc, r) == [k \in 1..7 |-> IF k = 1 THEN r[k] ELSE acc[k] + r[k]]

\* lines 435-443: one pass of `for r in &results`
Accumulate(acc, r) == [k \in 1..7 |-> acc[k] + r[k]]

RECURSIVE FoldTurn(_, _, _)
\* lines 426-443: the seven sums of turn t over results[1..n]
FoldTurn(results, t, n) ==
    IF n = 0 THEN <<0, 0, 0, 0, 0, 0, 0>>
    ELSE Accumulate(FoldTurn(results, t, n - 1), results[n][t])

\* lines 423-454: the Stats of results, a sequence of turn_data
Reduce(results, sims, turns) ==
    LET sums == [t \in 1..turns |-> FoldTurn(results, t, Len(results))]
        Column(k) == [t \in 1..turns |-> Quotient(sums[t][k], sims)]
    IN  [screw |-> Column(1), flood |-> Column(2), ok |-> Column(3),
         avg_mana_available |-> Column(4), avg_mana_spent |-> Column(5),
         avg_cards_cast |-> Column(6), avg_hand_size |-> Column(7)]

RunInit ==
    /\ run \in {[pc |-> "start", deck_file |-> f, sims |-> n, turns |-> t,
                 deck |-> <<>>, commander |-> <<>>, panic |-> "",
                 results |-> [i \in 1..n |-> <<>>], completed |-> <<>>,
                 examples |-> <<>>, stats |-> <<>>] :
                   f \in DeckFiles, n \in 0..MaxSims, t \in RunTurns}
    /\ sim = IdleSim
    /\ twin = IdleSim
    /\ pool = NewPool
    /\ op = NoOp

\* lines 359-360: expand, then commander; either may panic
Validate ==
    /\ run.pc = "start"
    /\ LET e == Expand(run.deck_file)
           c == FindCommander(run.deck_file)
       IN  run' = IF e.panic
                  THEN [run EXCEPT !.pc = "panicked",
                            !.panic = "Deck must have 99 cards excluding commander"]
                  ELSE IF c.panic
                  THEN [run EXCEPT !.pc = "panicked",
                            !.panic = "Commander card not found in deck"]
                  ELSE [run EXCEPT !.pc = "running", !.deck = e.deck,
                            !.commander = c.card]
    /\ UNCHANGED <<pool, op, sim, twin>>

\* lines 364-421: the worker of sim_idx runs its closure to the end; collect
\* puts what it returns at its index, the trace goes where the lock finds it
SimCompletes ==
    /\ run.pc = "running"
    /\ \E sim_idx \in 0..(run.sims - 1) :
          /\ run.results[sim_idx + 1] = <<>>
          /\ \E turn_data \in TurnData(run.turns) :
                LET snapshots == [t \in 1..run.turns |-> SnapshotOf(turn_data[t], t)]
                IN  \E fs \in FinalStatuses(snapshots) :
                       run' = [run EXCEPT
                                 !.results[sim_idx + 1] = turn_data,
                                 !.completed = Append(@, sim_idx),
                                 !.examples =
                                     IF sim_idx < 5
                                     THEN Append(@, [final_status |-> fs,
                                                     turns |-> snapshots])
                                     ELSE @]
    /\ UNCHANGED <<pool, op, sim, twin>>

\* lines 423-457: every worker has returned; the results are reduced
Aggregate ==
    /\ run.pc = "running"
    /\ \A i \in 1..run.sims : run.results[i] # <<>>
    /\ run' = [run EXCEPT
                 !.pc = "aggregated",
                 !.stats = [example_traces |-> run.examples] @@
                           Reduce(run.results, run.sims, run.turns)]
    /\ UNCHANGED <<pool, op, sim, twin>>

RunNext ==
    \/ Validate
    \/ SimCompletes
    \/ Aggregate

SpecRun == RunInit /\ [][RunNext]_vars

(***************************************************************************)
(* C5: a valid deck expands to 99 cards with one Commander; a deck of 98   *)
(* or 100 cards, or with zero or two Commander entries, fails validation   *)
(* before any simulation starts.                                           *)
(***************************************************************************)
\* the number of cards the entries of a deck document stand for
ListedCards(cards) ==
    SumOver([i \in DOMAIN cards |-> IF IsCommander(cards[i]) THEN 0 ELSE cards[i].count],
            DOMAIN cards)

ListedCommanders(cards) == Cardinality({i \in DOMAIN cards : IsCommander(cards[i])})

ValidDeck(cards) == ListedCards(cards) = 99 /\ ListedCommanders(cards) = 1

C5_Validation ==
    run.pc \in {"running", "aggregated", "panicked"} =>
        IF ValidDeck(run.deck_file)
        THEN /\ run.pc # "panicked"
             /\ Len(run.deck) = 99
             /\ Len(run.commander) = 1
             /\ IsCommander(run.commander[1])
        ELSE /\ run.pc = "panicked"
             /\ run.completed = <<>>

(***************************************************************************)
(* C7: whatever the order in which the simulations complete or are         *)
(* folded, run yields the same per-turn counts and sums, each divided by   *)
(* the number of simulations.                                              *)
(***************************************************************************)
\* the statistics of a Stats, its traces left out
Rates(stats) == [k \in DOMAIN stats \ {"example_traces"} |-> stats[k]]

\* the sum over all simulations of field k of turn t, no order involved
Total7(results, t, k) ==
    SumOver([i \in DOMAIN results |-> results[i][t][k]], DOMAIN results)

C7_OrderIndependent ==
    run.pc = "aggregated" =>
        /\ \A order \in SeqsOf(1..run.sims) :
              Reduce([i \in 1..run.sims |-> run.results[order[i]]], run.sims, run.turns)
                  = Rates(run.stats)
        /\ \A t \in 1..run.turns :
              /\ run.stats.screw[t] = Quotient(Total7(run.results, t, 1), run.sims)
              /\ run.stats.flood[t] = Quotient(Total7(run.results, t, 2), run.sims)
              /\ run.stats.ok[t] = Quotient(Total7(run.results, t, 3), run.sims)
              /\ run.stats.avg_mana_available[t] = Quotient(Total7(run.results, t, 4), run.sims)
              /\ run.stats.avg_mana_spent[t] = Quotient(Total7(run.results, t, 5), run.sims)
              /\ run.stats.avg_cards_cast[t] = Quotient(Total7(run.results, t, 6), run.sims)
              /\ run.stats.avg_hand_size[t] = Quotient(Total7(run.results, t, 7), run.sims)

\* two simulations with different results, the later index completing first
C7_Witness ==
    /\ run.pc = "aggregated"
    /\ run.sims >= 2
    /\ run.completed[1] > run.completed[2]
    /\ run.results[1] # run.results[2]
    /\ run.stats.screw[1] = <<1, 2>>

(***************************************************************************)
(* C4: the mulligan loop ends within 4 iterations and, for a library of at *)
(* least 4 cards, GameState::new returns a hand of at least 4 cards.       *)
(***************************************************************************)
\* GameState::new has just returned
Constructed(s) == s.pc = "turn" /\ s.turn = 0

C4_MulliganHand ==
    /\ sim.pc = "mulligan" => sim.iterations < 4
    /\ Constructed(sim) =>
          /\ sim.iterations \in 1..4
          /\ sim.hand_size = 8 - sim.iterations
          /\ Len(sim.deck) >= 4 => Len(sim.hand) >= 4

(***************************************************************************)
(* C8: with 99 Spells of 1 generic + 1 pip of one color and no Lands, and  *)
(* any commander, every turn is a screw: no mana, nothing cast, nothing    *)
(* on the battlefield.                                                     *)
(***************************************************************************)
C8_SpellsOnlyScrew ==
    (sim.pc # "idle" /\ sim.deck = SpellDeck) =>
        /\ sim.battlefield = <<>>
        /\ sim.commander # <<>>
        /\ sim.mana_available = 0
        /\ sim.cards_cast = 0
        /\ \A t \in DOMAIN sim.turn_data :
              /\ sim.turn_data[t][1] = 1
              /\ sim.turn_data[t][2] = 0
              /\ sim.turn_data[t][3] = 0
              /\ sim.turn_data[t][4] = 0
              /\ sim.turn_data[t][6] = 0

\* the game of the spell deck with the zero-cost commander has been played
\* to its last turn, beyond the turn that emptied the library
C8_Witness ==
    /\ sim.pc = "done"
    /\ sim.deck = SpellDeck
    /\ sim.commander = <<FreeCommander>>
    /\ Len(sim.turn_data) = LongGame
    /\ sim.library = <<>>
    /\ sim.graveyard # <<>>

(***************************************************************************)
(* C9: with 99 single-color non-fetch Lands and a zero-cost Commander no   *)
(* turn is a screw, whatever the turn count: the commander is cast on turn *)
(* 1 and every later turn casts nothing.                                   *)
(***************************************************************************)
C9_LandsOnlyNeverScrew ==
    (sim.pc # "idle" /\ sim.deck = LandDeck) =>
        \A t \in DOMAIN sim.turn_data :
            /\ sim.turn_data[t][1] = 0
            /\ sim.turn_data[t][6] = IF t = 1 THEN 1 ELSE 0

(***************************************************************************)
(* C10: when the land played is a fetch land and the library holds a       *)
(* non-fetch land producing one of its target colors, the land drop adds   *)
(* exactly that first matching land to the battlefield, takes exactly one  *)
(* card from the library and puts the fetch land into the graveyard.       *)
(***************************************************************************)
\* the library positions of the lands the fetch land `land` may take
Matches(land, library) ==
    {i \in DOMAIN library :
        /\ library[i].type = "Land"
        /\ library[i].is_fetch = FALSE
        /\ Range(library[i].produces) \cap Range(land.fetches) # {}}

\* the cards of s, as a bag: card -> number of copies
BagOf(s) == [c \in Range(s) |-> CountIn(c, s)]

C10_FetchLandDrop ==
    [][(sim.pc = "land") =>
         LET lands == {i \in DOMAIN sim.hand : sim.hand[i].type = "Land"}
             pos == CHOOSE i \in lands : \A j \in lands : i <= j
             land == sim.hand[pos]
             found == Matches(land, sim.library)
             first == CHOOSE i \in found : \A j \in found : i <= j
         IN  (lands # {} /\ land.is_fetch /\ found # {}) =>
                /\ sim'.battlefield = Append(sim.battlefield, sim.library[first])
                /\ Len(sim'.library) = Len(sim.library) - 1
                /\ BagOf(sim'.library) = BagOf(RemoveAt(sim.library, first))
                /\ sim'.graveyard = Append(sim.graveyard, land)
                /\ \A i \in DOMAIN sim'.battlefield : ~sim'.battlefield[i].is_fetch
                /\ sim'.hand = RemoveAt(sim.hand, pos)
      ]_vars

\* a fetch land has just been played and took a Plains although the
\* library also held the Island, which it cannot fetch
C10_Witness ==
    /\ sim.pc = "mana"
    /\ sim.played_cards = <<"Strand (fetch)", "Plains (fetched)">>
    /\ sim.graveyard # <<>> /\ Last(sim.graveyard).name = "Strand"
    /\ sim.battlefield # <<>> /\ Last(sim.battlefield).name = "Plains"
    /\ \E i \in DOMAIN sim.library : sim.library[i].name = "Island"

(***************************************************************************)
(* C1: when can_pay rejects a request, spend returns false and leaves the  *)
(* generic counter and every color counter exactly as they were.           *)
(***************************************************************************)
C1_SpendAllOrNothing ==
    (op.kind = "spend" /\ ~CanPay(op.before, op.generic, op.pips))
        => (op.ok = FALSE /\ pool = op.before)

\* a spend that was rejected on a pool that holds mana, some of it of a
\* color the request names
C1_Witness ==
    /\ op.kind = "spend"
    /\ ~op.ok
    /\ op.pips # <<>>
    /\ \E c \in Range(op.pips) : GetOr0(op.before.colors, c) > 0

(***************************************************************************)
(* C2: when spend returns true no counter was below zero at any point,     *)
(* each color counter dropped by at least its pip multiplicity, and the    *)
(* pool total dropped by exactly generic cost + number of pips.            *)
(***************************************************************************)
NonNegative(p) ==
    /\ p.generic >= 0
    /\ \A c \in DOMAIN p.colors : p.colors[c] >= 0

C2_SpendExact ==
    (op.kind = "spend" /\ op.ok) =>
        /\ \A i \in DOMAIN op.steps : NonNegative(op.steps[i])
        /\ NonNegative(pool)
        /\ DOMAIN pool.colors = DOMAIN op.before.colors
        /\ \A c \in DOMAIN pool.colors :
              op.before.colors[c] - pool.colors[c] >= CountIn(c, op.pips)
        /\ Total(op.before) - Total(pool) = op.generic + Len(op.pips)

\* a successful spend whose generic cost was paid partly from the generic
\* counter and partly from colored surplus, with a pip as well
C2_Witness ==
    /\ op.kind = "spend"
    /\ op.ok
    /\ op.pips # <<>>
    /\ op.generic > op.before.generic
    /\ op.before.generic > 0

(***************************************************************************)
(* C3: can_pay is true exactly when every color counter covers its pips    *)
(* (a pip of a color with no counter is unpayable) and the generic counter *)
(* plus the colored surplus covers the generic cost; the pool is unchanged *)
(***************************************************************************)
C3_CanPayMeaning ==
    (op.kind = "can_pay") =>
        /\ pool = op.before
        /\ op.ok <=>
            /\ \A c \in Symbols :
                  CountIn(c, op.pips) > 0 =>
                      (c \in DOMAIN pool.colors /\ pool.colors[c] >= CountIn(c, op.pips))
            /\ pool.generic
                 + SumOver([c \in DOMAIN pool.colors |->
                               pool.colors[c] - CountIn(c, op.pips)],
                           DOMAIN pool.colors)
                 >= op.generic

\* can_pay accepted a request with a pip and a generic cost that needs the
\* colored surplus
C3_Witness ==
    /\ op.kind = "can_pay"
    /\ op.ok
    /\ op.pips # <<>>
    /\ op.generic > pool.generic

\* can_pay rejected a request although the pool total covers generic + pips
C3_WitnessReject ==
    /\ op.kind = "can_pay"
    /\ ~op.ok
    /\ Total(pool) >= op.generic + Len(op.pips)

(***************************************************************************)
(* C11: every turn gets exactly one label: with 0 cards cast, flood when   *)
(* lands are at least 0.8 of the hand after cleanup (ratio 0 for an empty  *)
(* hand) and screw otherwise; with cards cast, flood when mana available   *)
(* minus mana spent is at least 4 and ok otherwise.                        *)
(***************************************************************************)
\* the lands among the cards of a hand
LandsIn(hand) == Cardinality({i \in DOMAIN hand : hand[i].type = "Land"})

C11_Classification ==
    [][(sim.pc = "classify") =>
         LET leftover == sim.mana_available - sim.mana_spent
             clogged == sim.hand # <<>> /\ 10 * LandsIn(sim.hand) >= 8 * Len(sim.hand)
             label == IF sim.cards_cast = 0 /\ clogged THEN <<0, 1, 0>>
                      ELSE IF sim.cards_cast = 0 THEN <<1, 0, 0>>
                      ELSE IF leftover >= 4 THEN <<0, 1, 0>>
                      ELSE <<0, 0, 1>>
         IN  /\ Len(sim'.turn_data) = Len(sim.turn_data) + 1
             /\ SubSeq(Last(sim'.turn_data), 1, 3) = label
             /\ SubSeq(sim'.turn_data, 1, Len(sim.turn_data)) = sim.turn_data
      ]_vars

\* one game has had an ok turn, a screw turn and a turn that cast a card and
\* left exactly 4 mana unused
C11_Witness ==
    /\ sim.pc = "turn"
    /\ \E a, b, c \in DOMAIN sim.turn_data :
          /\ sim.turn_data[a][3] = 1
          /\ sim.turn_data[b][1] = 1
          /\ sim.turn_data[c][2] = 1
          /\ sim.turn_data[c][6] > 0
          /\ sim.turn_data[c][4] - sim.turn_data[c][5] = 4

\* a turn that cast nothing from a hand of lands only has been called flood
C11_WitnessClogged ==
    /\ sim.pc = "turn"
    /\ \E t \in DOMAIN sim.turn_data :
          sim.turn_data[t][2] = 1 /\ sim.turn_data[t][6] = 0

\* per turn the screw, flood and ok counts of a run add up to its simulations
C11_CountsSum ==
    run.pc = "aggregated" =>
        \A t \in 1..run.turns :
            LET sums == FoldTurn(run.results, t, run.sims)
            IN  sums[1] + sums[2] + sums[3] = run.sims

(***************************************************************************)
(* C12: draw(n) with k cards in the library moves exactly min(n, k) cards  *)
(* from the tail of the library to the hand, in order; with an empty       *)
(* library it changes nothing and the turn goes on.                        *)
(***************************************************************************)
\* the min(n, k) cards at the tail of a library, the last one first
TopCards(library, n) ==
    [i \in 1..Min(n, Len(library)) |-> library[Len(library) - i + 1]]

Reverse(s) == [i \in 1..Len(s) |-> s[Len(s) - i + 1]]

\* what the graveyard of b holds beyond the graveyard of a
NewlyBuried(a, b) == SubSeq(b.graveyard, Len(a.graveyard) + 1, Len(b.graveyard))

C12_DrawClamped ==
    [][/\ (sim.pc = "turn" /\ sim.turn < sim.turns) =>
             /\ sim'.hand = sim.hand \o TopCards(sim.library, 1)
             /\ sim.library = sim'.library \o Reverse(TopCards(sim.library, 1))
             /\ sim'.pc = "land"
             /\ sim'.battlefield = sim.battlefield
             /\ sim'.graveyard = sim.graveyard
       /\ (sim.pc = "end") =>
             /\ sim'.hand \o Reverse(NewlyBuried(sim, sim'))
                   = sim.hand \o TopCards(sim.library, sim.cards_drawn)
             /\ sim.library = sim'.library \o Reverse(TopCards(sim.library, sim.cards_drawn))
             /\ sim'.pc = "classify"
             /\ sim'.battlefield = sim.battlefield
      ]_vars

\* the Tome asked for 2 cards when the library held 1, and the turn ended
C12_Witness ==
    /\ sim.pc = "classify"
    /\ sim.deck \in DrawLibraries
    /\ Len(sim.deck) = 16
    /\ sim.turn = 0
    /\ sim.cards_drawn = 2
    /\ sim.library = <<>>
    /\ Len(sim.hand) = 7
    /\ Last(sim.hand).name = "Shock"

\* a turn began with an empty library, drew nothing and was played to its end
C12_WitnessEmpty ==
    /\ sim.pc = "turn"
    /\ sim.turn = 2
    /\ sim.deck \in DrawLibraries
    /\ Len(sim.deck) = 14

(***************************************************************************)
(* C13: a successful spend takes the generic cost from the generic counter *)
(* first and touches colored surplus only once that counter is exhausted;  *)
(* the colored counters are drained in one fixed order, so equal pools and *)
(* equal requests always leave equal pools.                                *)
(***************************************************************************)
C13_FixedDrainOrder ==
    (op.kind = "spend" /\ op.ok) =>
        LET paid == op.steps[1]
            from_generic == Min(op.generic, op.before.generic)
        IN  /\ paid.generic = op.before.generic
            /\ pool.generic = op.before.generic - from_generic
            /\ pool.colors # paid.colors => pool.generic = 0
            /\ \A ord \in SpendOrders(op.before, op.pips) :
                  Spend(op.before, op.generic, op.pips, ord).pool = pool

(***************************************************************************)
(* C14: a dealt hand is kept exactly when lands plus Ramps of generic cost *)
(* at most 2 are at least 3 and lands are at most 5; otherwise it goes     *)
(* back and one card fewer is dealt.  A hand returned with more than 4     *)
(* cards satisfies the rule; the hand dealt at size 4 is returned anyway.  *)
(***************************************************************************)
KeepRule(hand) ==
    LET lands == LandsIn(hand)
        fast == Cardinality({i \in DOMAIN hand :
                                hand[i].type = "Ramp" /\ hand[i].generic <= 2})
    IN  lands + fast >= 3 /\ lands <= 5

C14_WitnessFloor ==
    /\ sim.pc = "turn"
    /\ sim.turn = 0
    /\ sim.deck \in MulliganLibraries
    /\ sim.iterations = 4
    /\ Len(sim.hand) = 4
    /\ ~KeepRule(sim.hand)

(***************************************************************************)
(* C15: every pass of the casting loop casts a Ramp if a Ramp in hand is   *)
(* affordable; the commander is tried only in a pass that cast no Ramp, a  *)
(* Spell only in a pass that cast neither; after a play the loop starts    *)
(* again at the Ramps, and a pass without a play ends it.                  *)
(***************************************************************************)
\* the hand indices of the Ramps the pool of s pays for
AffordableRamps(s) ==
    {i \in DOMAIN s.hand : s.hand[i].type = "Ramp" /\ Total(s.mana) >= s.hand[i].generic}

\* the hand indices of the Spells the pool of s pays for
AffordableSpells(s) ==
    {i \in DOMAIN s.hand :
        s.hand[i].type = "Spell" /\ CanPay(s.mana, s.hand[i].generic, s.hand[i].pips)}

\* the commander of s is in its slot and the pool, not empty, pays for it
CommanderAffordable(s) ==
    /\ s.commander # <<>>
    /\ Total(s.mana) > 0
    /\ CanPay(s.mana, s.commander[1].generic + 2 * s.commander_casts, s.commander[1].pips)

\* the step from s to t took the card at some index of the hand of s, a
\* card of type kind
Played(s, t, kind) ==
    \E i \in DOMAIN s.hand : s.hand[i].type = kind /\ t.hand = RemoveAt(s.hand, i)

C15_CastingPriority ==
    [][(sim.pc = "cast") =>
         LET ramp_cast == Played(sim, sim', "Ramp")
             cmd_cast == sim.commander # <<>> /\ sim'.commander = <<>>
             spell_cast == Played(sim, sim', "Spell")
             plays == Cardinality({k \in {"r", "c", "s"} :
                          \/ k = "r" /\ ramp_cast
                          \/ k = "c" /\ cmd_cast
                          \/ k = "s" /\ spell_cast})
         IN  /\ AffordableRamps(sim) # {} <=> ramp_cast
             /\ cmd_cast <=> (AffordableRamps(sim) = {} /\ CommanderAffordable(sim))
             /\ spell_cast <=> /\ AffordableRamps(sim) = {}
                               /\ ~CommanderAffordable(sim)
                               /\ AffordableSpells(sim) # {}
             /\ plays <= 1
             /\ sim'.cards_cast = sim.cards_cast + plays
             /\ sim'.pc = IF plays = 1 THEN "cast" ELSE "end"
             /\ plays = 0 => /\ sim'.hand = sim.hand
                             /\ sim'.mana = sim.mana
                             /\ sim'.battlefield = sim.battlefield
      ]_vars

\* turn 1 had one mana, enough for the Ramp, for the free commander or for
\* the Insight: the Ramp was cast and the loop ended with the other two uncast
C15_Witness ==
    /\ sim.pc = "end"
    /\ sim.deck = PriorityLibrary
    /\ sim.turn = 0
    /\ sim.mana_available = 1
    /\ sim.played_cards = <<"Plains", "Ring">>
    /\ sim.commander = <<FreeCommander>>
    /\ \E i \in DOMAIN sim.hand : sim.hand[i].name = "Insight"

\* turn 2 cast no Ramp, then the commander, then two Spells, one per pass
C15_WitnessRestart ==
    /\ sim.pc = "end"
    /\ sim.deck = PriorityLibrary
    /\ sim.turn = 1
    /\ sim.played_cards = <<"Plains", "Golem (cmdr tax: 0)", "Insight", "Bear">>

(***************************************************************************)
(* C16: when several Ramps in hand are affordable by their generic cost    *)
(* alone, the one cast is the first of them in hand order; it moves to the *)
(* battlefield and its draw effects are added to the count.                *)
(***************************************************************************)
C16_FirstRampInHandOrder ==
    [][(sim.pc = "cast" /\ AffordableRamps(sim) # {}) =>
         LET first == CHOOSE i \in AffordableRamps(sim) :
                          \A j \in AffordableRamps(sim) : i <= j
             card == sim.hand[first]
         IN  /\ sim'.hand = RemoveAt(sim.hand, first)
             /\ sim'.battlefield = Append(sim.battlefield, card)
             /\ sim'.cards_drawn = sim.cards_drawn
                    + Cardinality({k \in DOMAIN card.features :
                                      card.features[k].feature = "DRAW"})
      ]_vars

(***************************************************************************)
(* C17: the commander is cast only from its slot, only when the pool holds *)
(* at least 1 mana and pays its pips plus its generic cost plus twice      *)
(* commander_casts; a cast puts it on the battlefield, empties the slot    *)
(* and adds 1 to commander_casts; otherwise the slot, the count and the    *)
(* pool are as they were (but for a Ramp or Spell cast in the same pass).  *)
(***************************************************************************)
\* the mana a card costs: its generic cost and one for each pip
FullCost(card) ==
    card.generic + (IF card.type = "Ramp" THEN 0 ELSE Len(card.pips))

C17_CommanderStep ==
    [][(sim.pc = "cast") =>
         LET cmd == sim.commander[1]
             due == cmd.generic + 2 * sim.commander_casts
         IN  IF sim'.commander # sim.commander
             THEN /\ sim.commander # <<>>
                  /\ sim'.commander = <<>>
                  /\ Total(sim.mana) >= 1
                  /\ CanPay(sim.mana, due, cmd.pips)
                  /\ Total(sim'.mana) = Total(sim.mana) - due - Len(cmd.pips)
                  /\ \A c \in Range(cmd.pips) :
                        sim'.mana.colors[c] <= sim.mana.colors[c] - CountIn(c, cmd.pips)
                  /\ sim'.battlefield = Append(sim.battlefield, cmd)
                  /\ sim'.commander_casts = sim.commander_casts + 1
                  /\ sim'.hand = sim.hand
                  /\ sim'.graveyard = sim.graveyard
             ELSE /\ sim'.commander_casts = sim.commander_casts
                  /\ \A i \in DOMAIN sim'.battlefield :
                        sim'.battlefield[i].type = "Commander" =>
                            i \in DOMAIN sim.battlefield
                  /\ \/ /\ sim'.mana = sim.mana
                        /\ sim'.hand = sim.hand
                        /\ sim'.battlefield = sim.battlefield
                     \/ \E i \in DOMAIN sim.hand :
                           /\ sim'.hand = RemoveAt(sim.hand, i)
                           /\ Total(sim'.mana) = Total(sim.mana) - FullCost(sim.hand[i])
      ]_vars

\* the commander of 1 generic and a white pip has been cast from a pool of 3
C17_Witness ==
    /\ sim.pc = "cast"
    /\ sim.commander = <<>>
    /\ sim.commander_casts = 1
    /\ sim.mana_available = 3
    /\ Total(sim.mana) = 1
    /\ Last(sim.battlefield) = PaidCommander
    /\ Last(sim.played_cards) = "Captain (cmdr tax: 0)"

\* a turn ended with the zero-cost commander still in its slot: the Ramp had
\* emptied the pool
C17_WitnessEmptyPool ==
    /\ sim.pc = "end"
    /\ sim.commander = <<FreeCommander>>
    /\ sim.mana_available = 1
    /\ Total(sim.mana) = 0
    /\ sim.cards_cast = 1

(***************************************************************************)
(* C18: the Spell cast is the earliest affordable Spell in hand order with *)
(* a draw effect if an affordable Spell has one, else the earliest         *)
(* affordable Spell; it goes to the graveyard when its type contains       *)
(* instant or sorcery, to the battlefield otherwise.                       *)
(***************************************************************************)
\* the least element of a non-empty set of numbers
Least(S) == CHOOSE i \in S : \A j \in S : i <= j

\* the type line names a one-shot card, in any letter case
OneShot(type_line) ==
    \E word \in {<<"i", "n", "s", "t", "a", "n", "t">>,
                 <<"s", "o", "r", "c", "e", "r", "y">>} :
        Contains(ToLowercase(type_line), word)

C18_SpellChoice ==
    [][(sim.pc = "cast" /\ Played(sim, sim', "Spell")) =>
         LET affordable == AffordableSpells(sim)
             drawing == {i \in affordable :
                            \E k \in DOMAIN sim.hand[i].features :
                                sim.hand[i].features[k].feature = "DRAW"}
             pick == IF drawing # {} THEN Least(drawing) ELSE Least(affordable)
             card == sim.hand[pick]
         IN  /\ affordable # {}
             /\ sim'.hand = RemoveAt(sim.hand, pick)
             /\ IF OneShot(card.type_line)
                THEN /\ sim'.graveyard = Append(sim.graveyard, card)
                     /\ sim'.battlefield = sim.battlefield
                ELSE /\ sim'.battlefield = Append(sim.battlefield, card)
                     /\ sim'.graveyard = sim.graveyard
      ]_vars

\* turn 1 cast the Insight, a sorcery, past the affordable Omen before it;
\* turn 2 cast the Bear, a creature, the earlier of two affordable Spells
C18_Witness ==
    /\ sim.pc = "end"
    /\ sim.deck = SpellLibrary
    /\ sim.turn = 1
    /\ Last(sim.battlefield).name = "Bear"
    /\ Last(sim.graveyard).name = "Insight"
    /\ \E i \in DOMAIN sim.hand : sim.hand[i].name = "Omen"

(***************************************************************************)
(* C19: the mana available for a turn is the number of Lands and Ramps on  *)
(* the battlefield with a non-empty production set when it is generated: a *)
(* single symbol other than C adds 1 to that color, C or several symbols   *)
(* add 1 generic.  It is generated once, after the land drop and before    *)
(* casting, so a Ramp cast this turn adds nothing until the next turn.     *)
(***************************************************************************)
\* the battlefield positions of the Lands and Ramps that produce something
Sources(battlefield) ==
    {i \in DOMAIN battlefield :
        battlefield[i].type \in {"Land", "Ramp"} /\ battlefield[i].produces # <<>>}

C19_ManaGeneration ==
    [][/\ (sim.pc = "mana") =>
             LET src == Sources(sim.battlefield)
                 plain == {i \in src : Len(sim.battlefield[i].produces) = 1
                                       /\ sim.battlefield[i].produces[1] # "C"}
             IN  /\ sim'.mana_available = Cardinality(src)
                 /\ Total(sim'.mana) = Cardinality(src)
                 /\ sim'.mana.generic = Cardinality(src \ plain)
                 /\ \A c \in DOMAIN sim'.mana.colors :
                       sim'.mana.colors[c] =
                           Cardinality({i \in plain : sim.battlefield[i].produces[1] = c})
                 /\ sim'.battlefield = sim.battlefield
                 /\ sim'.pc = "cast"
       /\ (sim.pc = "land") => sim'.pc = "mana"
       /\ (sim.pc = "cast") =>
             /\ sim'.mana_available = sim.mana_available
             /\ Total(sim'.mana) <= Total(sim.mana)
             /\ \A c \in DOMAIN sim.mana.colors : sim'.mana.colors[c] <= sim.mana.colors[c]
             /\ sim'.mana.generic <= sim.mana.generic
             /\ sim'.pc \in {"cast", "end"}
      ]_vars

\* turn 2 played the Waste and cast the Ring: four Lands and Ramps are on the
\* battlefield, the mana of the turn was 2 and the Ring added none
C19_Witness ==
    /\ sim.pc = "end"
    /\ sim.deck = ManaLibrary
    /\ sim.turn = 1
    /\ sim.mana_available = 2
    /\ Total(sim.mana) = 1
    /\ \E i \in DOMAIN sim.played_cards : sim.played_cards[i] = "Ring"
    /\ Cardinality({i \in DOMAIN sim.battlefield :
                       sim.battlefield[i].type \in {"Land", "Ramp"}}) = 4

\* turn 4 generated 5 mana: generic 2 from the Tower and the Ring, one blue,
\* one white and one of the unknown symbol
C19_WitnessColors ==
    /\ sim.pc = "cast"
    /\ sim.deck = ManaLibrary
    /\ sim.turn = 3
    /\ sim.cards_cast = 0
    /\ sim.mana_available = 5
    /\ sim.mana.generic = 2
    /\ sim.mana.colors["X"] = 1

(***************************************************************************)
(* C20: after construction and after every play_turn the hand holds at     *)
(* most 7 cards; the cleanup moves the excess from the tail of the hand to *)
(* the graveyard and moves nothing when the hand has 7 cards or fewer.     *)
(***************************************************************************)
C20_HandSize ==
    [][/\ sim'.pc \in {"turn", "classify", "done"} => Len(sim'.hand) <= 7
       /\ (sim.pc = "end") =>
             LET full == sim.hand \o TopCards(sim.library, sim.cards_drawn)
                 kept == Min(7, Len(full))
             IN  /\ sim'.hand = SubSeq(full, 1, kept)
                 /\ sim'.graveyard
                       = sim.graveyard \o Reverse(SubSeq(full, kept + 1, Len(full)))
                 /\ Len(full) <= 7 => /\ sim'.graveyard = sim.graveyard
                                      /\ sim'.hand = full
      ]_vars

\* turn 2 ended with 9 cards in hand: the last two went to the graveyard,
\* the last card first
C20_Witness ==
    /\ sim.pc = "classify"
    /\ sim.deck = DiscardLibrary
    /\ sim.turn = 1
    /\ sim.cards_drawn = 4
    /\ Len(sim.hand) = 7
    /\ Len(sim.graveyard) = 6
    /\ sim.graveyard[5].name # sim.graveyard[6].name

\* a turn ended with fewer than 7 cards in hand and discarded nothing
C20_WitnessNoExcess ==
    /\ sim.pc = "classify"
    /\ sim.deck = SpellLibrary
    /\ sim.turn = 1
    /\ Len(sim.hand) < 7
    /\ Len(sim.graveyard) = 1

(***************************************************************************)
(* SpecTrace: the workers of run (sim.rs 362-422) and the collector they   *)
(* share, the deck being valid                                             *)
(***************************************************************************)
\* the threads of the pool that runs the parallel iterator
Workers == 2

\* line 370: capture = sim_idx < 5
CaptureLimit == 5

\* the calls run(deck, sims, turns) made with a valid deck, as <<sims, turns>>
TraceCalls ==
    {[sims |-> c[1], turns |-> c[2]] :
        c \in {<<0, 1>>, <<1, 2>>, <<3, 2>>, <<5, 1>>, <<6, 1>>, <<7, 0>>}}

\* lines 395-400: the tuples a turn of these calls pushes
TraceTuples == {<<1, 0, 0, 0, 0, 0, 7>>, <<0, 0, 1, 1, 1, 1, 4>>}

\* a thread of the pool that is running no closure
IdleWorker == [pc |-> "idle"]

\* the mutant of Unlocked under which lock() never waits
UnlockedAlways(lock) == TRUE

\* line 414: examples.lock() returns once no thread holds the guard
Unlocked(lock) == lock = 0

TraceInit ==
    /\ run \in {[pc |-> "running", sims |-> c.sims, turns |-> c.turns,
                 claimed |-> {}, worker |-> [w \in 1..Workers |-> IdleWorker],
                 lock |-> 0, examples |-> <<>>,
                 results |-> [i \in 1..c.sims |-> <<>>], returned |-> {},
                 stats |-> <<>>] : c \in TraceCalls}
    /\ sim = IdleSim
    /\ twin = IdleSim
    /\ pool = NewPool
    /\ op = NoOp

\* lines 366-412 and 420: a thread takes an index nobody took and runs its
\* closure as far as the collector; a closure that captures nothing returns.
\* sim_idx is no field of GameTrace: it records whose trace it is
WorkerPlays ==
    /\ run.pc = "running"
    /\ \E w \in 1..Workers, sim_idx \in 0..(run.sims - 1) :
          /\ run.worker[w].pc = "idle"
          /\ sim_idx \notin run.claimed
          /\ \E turn_data \in [1..run.turns -> TraceTuples] :
                LET capture == sim_idx < CaptureLimit
                    snapshots == [t \in 1..run.turns |-> SnapshotOf(turn_data[t], t)]
                IN  IF capture
                    THEN \E fs \in FinalStatuses(snapshots) :
                            run' = [run EXCEPT
                                      !.claimed = @ \cup {sim_idx},
                                      !.worker[w] =
                                          [pc |-> "lock", sim_idx |-> sim_idx,
                                           turn_data |-> turn_data,
                                           trace |-> [sim_idx |-> sim_idx,
                                                      final_status |-> fs,
                                                      turns |-> snapshots]]]
                    ELSE run' = [run EXCEPT
                                   !.claimed = @ \cup {sim_idx},
                                   !.results[sim_idx + 1] = turn_data,
                                   !.returned = @ \cup {sim_idx}]
    /\ UNCHANGED <<pool, op, sim, twin>>

\* line 414: lock().unwrap() hands the thread the guard; push begins by
\* reading the vector it will extend
WorkerLocks ==
    /\ run.pc = "running"
    /\ \E w \in 1..Workers :
          /\ run.worker[w].pc = "lock"
          /\ Unlocked(run.lock)
          /\ run' = [run EXCEPT
                       !.lock = w,
                       !.worker[w] = [@ EXCEPT !.pc = "push"] @@
                                     [vec |-> run.examples]]
    /\ UNCHANGED <<pool, op, sim, twin>>

\* lines 414-420: push stores the extended vector, the guard is dropped at
\* the end of the statement and the closure returns its turn_data
WorkerPushes ==
    /\ run.pc = "running"
    /\ \E w \in 1..Workers :
          /\ run.worker[w].pc = "push"
          /\ run' = [run EXCEPT
                       !.examples = Append(run.worker[w].vec, run.worker[w].trace),
                       !.lock = 0,
                       !.results[run.worker[w].sim_idx + 1] = run.worker[w].turn_data,
                       !.returned = @ \cup {run.worker[w].sim_idx},
                       !.worker[w] = IdleWorker]
    /\ UNCHANGED <<pool, op, sim, twin>>

\* lines 422-457: collect has every result; the statistics are reduced and
\* the collector is moved into them
Join ==
    /\ run.pc = "running"
    /\ run.returned = 0..(run.sims - 1)
    /\ run' = [run EXCEPT
                 !.pc = "returned",
                 !.stats = [example_traces |-> run.examples] @@
                           Reduce(run.results, run.sims, run.turns)]
    /\ UNCHANGED <<pool, op, sim, twin>>

TraceNext ==
    \/ WorkerPlays
    \/ WorkerLocks
    \/ WorkerPushes
    \/ Join

SpecTrace == TraceInit /\ [][TraceNext]_vars

(***************************************************************************)
(* C21: for every interleaving of the workers, when run returns the trace  *)
(* collection holds exactly min(sims, 5) traces, one for each simulation   *)
(* index below 5 and none for any other index, each with exactly `turns`   *)
(* snapshots numbered 1..turns in order; no append is lost or duplicated.  *)
(***************************************************************************)
\* the simulation indices the traces of a collection belong to
Traced(traces) == {traces[i].sim_idx : i \in DOMAIN traces}

C21_TraceSampling ==
    run.pc = "returned" =>
        LET traces == run.stats.example_traces
        IN  /\ Len(traces) = Min(run.sims, 5)
            /\ Traced(traces) = 0..(Min(run.sims, 5) - 1)
            /\ \A i \in DOMAIN traces :
                  /\ Len(traces[i].turns) = run.turns
                  /\ \A t \in 1..run.turns : traces[i].turns[t].turn = t

\* six simulations of one turn each: five traces, pushed out of index order
C21_Witness ==
    /\ run.pc = "returned"
    /\ run.sims = 6
    /\ run.turns = 1
    /\ Len(run.stats.example_traces) = 5
    /\ run.stats.example_traces[1].sim_idx = 4
    /\ run.stats.example_traces[5].sim_idx = 0

\* a thread waited for the guard while another held it
C21_WitnessContended ==
    /\ run.pc = "running"
    /\ run.turns = 2
    /\ run.lock = 1
    /\ run.worker[1].pc = "push"
    /\ run.worker[2].pc = "lock"

(***************************************************************************)
(* C22: through construction (the initial draw and every mulligan          *)
(* iteration) and every subsequent turn no card is lost or duplicated:     *)
(* the cards in hand, library, battlefield and graveyard, not counting     *)
(* the commander, always total the 99 cards of the expanded deck.          *)
(***************************************************************************)
\* the cards of a game outside the commander slot, the commander left out
Zones(s) ==
    s.hand \o s.library \o SelectSeq(s.battlefield, LAMBDA c : ~IsCommander(c))
           \o s.graveyard

C22_CardConservation ==
    sim.pc # "idle" =>
        /\ Len(Zones(sim)) = Len(sim.deck)
        /\ BagOf(Zones(sim)) = BagOf(sim.deck)

\* the game of a 99-card deck right after GameState::new: 92 cards are left
C22_SevenLost ==
    /\ Constructed(sim)
    /\ Len(sim.deck) = 99
    /\ Len(Zones(sim)) = 92

\* from the first mulligan deal on, every step keeps the cards it found
C22_ConservedAfterDraw ==
    [][(sim.pc \notin {"idle", "new"} /\ sim'.pc # "new") =>
          BagOf(Zones(sim')) = BagOf(Zones(sim))]_vars

(***************************************************************************)
(* SpecLoop: one game as in Spec, with the state in which the casting      *)
(* loop of the current turn began kept in twin                             *)
(***************************************************************************)
LoopInit ==
    /\ sim \in {NewSim(sc.deck, sc.commander, sc.turns, sc.sim_idx, sc.rng) :
                  sc \in Scenarios}
    /\ twin = IdleSim
    /\ run = IdleRun
    /\ pool = NewPool
    /\ op = NoOp

\* lines 243-249: play_turn reaches `loop`
LoopEnter ==
    /\ sim.pc = "mana"
    /\ sim' = BeginCasting(sim)
    /\ twin' = sim'
    /\ UNCHANGED <<pool, op, run>>

\* every other step of the game
LoopStep ==
    /\ sim.pc # "mana"
    /\ sim' \in Successors(sim)
    /\ UNCHANGED <<pool, op, twin, run>>

LoopNext ==
    \/ LoopEnter
    \/ LoopStep

SpecLoop == LoopInit /\ [][LoopNext]_vars

(***************************************************************************)
(* C23: the casting loop of play_turn always terminates: every pass that   *)
(* makes a play removes one card from the hand or takes the commander out  *)
(* of its slot, so a turn makes at most (hand size at loop start + 1)      *)
(* plays and then ends with a pass that plays nothing.                     *)
(***************************************************************************)
\* the pass from s to t makes a play
PlayingPass(s, t) ==
    /\ t.pc = "cast"
    /\ t.cards_cast = s.cards_cast + 1
    /\ Len(t.played_cards) = Len(s.played_cards) + 1
    /\ \/ Len(t.hand) = Len(s.hand) - 1 /\ t.commander = s.commander
       \/ t.hand = s.hand /\ s.commander # <<>> /\ t.commander = <<>>

\* the pass from s to t plays nothing and leaves the loop
IdlePass(s, t) == t = [s EXCEPT !.pc = "end"]

C23_CastingLoopEnds ==
    /\ [][(sim.pc = "cast") => (PlayingPass(sim, sim') \/ IdlePass(sim, sim'))]_vars
    /\ [](sim.pc \in {"cast", "end"} =>
            /\ twin.pc = "cast"
            /\ twin.turn = sim.turn
            /\ sim.cards_cast = (Len(twin.hand) - Len(sim.hand))
                                + (Len(twin.commander) - Len(sim.commander))
            /\ sim.cards_cast <= Len(twin.hand) + 1)

\* a loop that played cards from the hand and the commander has ended
C23_Witness ==
    /\ sim.pc = "end"
    /\ sim.cards_cast >= 3
    /\ Len(sim.hand) < Len(twin.hand)
    /\ twin.commander # <<>>
    /\ sim.commander = <<>>

\* a loop whose first pass plays nothing
C23_WitnessNoPlay ==
    /\ sim.pc = "end"
    /\ sim.cards_cast = 0
    /\ twin.hand # <<>>
    /\ sim.hand = twin.hand

(***************************************************************************)
(* C24: in any game the commander is cast at most once: once it has moved  *)
(* to the battlefield the commander slot stays empty for the rest of the   *)
(* game, commander_casts is 0 while the slot is occupied and 1            *)
(* afterwards, so the tax added to any successful commander cast is 0.     *)
(***************************************************************************)
\* the Commander cards among cards
CommandersOn(cards) == Cardinality({i \in DOMAIN cards : IsCommander(cards[i])})

C24_CommanderOnce ==
    /\ [](sim.pc # "idle" =>
            IF sim.commander # <<>>
            THEN sim.commander_casts = 0 /\ CommandersOn(sim.battlefield) = 0
            ELSE sim.commander_casts = 1 /\ CommandersOn(sim.battlefield) = 1)
    /\ [][(sim.commander = <<>>) => (sim'.commander = <<>>)]_vars
    /\ [][(sim.commander # <<>> /\ sim'.commander = <<>>) =>
            /\ sim.pc = "cast"
            /\ CommanderTax(sim) = 0
            /\ Last(sim'.played_cards) = sim.commander[1].name \o " (cmdr tax: 0)"
            /\ Last(sim'.battlefield) = sim.commander[1]
         ]_vars

\* the commander was cast on an earlier turn and the game goes on without it
C24_Witness ==
    /\ sim.pc = "cast"
    /\ sim.commander = <<>>
    /\ sim.commander_casts = 1
    /\ sim.turn >= 1
    /\ sim.cards_cast = 0
    /\ Total(sim.mana) > 0
    /\ \E i \in DOMAIN sim.snapshots :
          /\ sim.snapshots[i].turn <= sim.turn
          /\ "Golem (cmdr tax: 0)" \in Range(sim.snapshots[i].played_cards)

\* the end of a game whose commander never left its slot
C24_WitnessNeverCast ==
    /\ sim.pc = "done"
    /\ sim.turns >= 2
    /\ sim.commander # <<>>
    /\ sim.commander_casts = 0
====
